---- MODULE Spec2Model ----
(***************************************************************************)
(* Model of the Move unit-test runner                                      *)
(*   language/tools/move-unit-test/src/test_runner.rs                      *)
(* TestRunner::new / filter / run and SharedTestingConfig::exec_module_    *)
(* tests, together with the TestStatistics accumulator they fold into.     *)
(***************************************************************************)
EXTENDS Integers, Sequences, FiniteSets, TLC

\* ------------------------------------------------------------------ bounds
\* Number of distinct abort codes the VM may report / a test may expect.
NumCodes == 2
\* Largest worker-pool size tried (num_threads ranges over 1..MaxThreads).
MaxThreads == 2
\* Largest number of filter calls made before run.
MaxFilters == 2
\* Accumulators handed to combine: longest failure list, largest pass count.
MaxListLen == 1
MaxPassed == 1
\* Gas units handed to every test, and the units a short and a long test
\* body need under the unit cost table.
ExecutionBound == 10
ShortBody == 5
LongBody == 50
\* Width in bits given to usize (the counter behind Counter::next), scaled
\* down from the 32 or 64 bits of the target.
UsizeBits == 3

Codes == {7 + 2 * i : i \in 0 .. (NumCodes - 1)}

\* ------------------------------------------------------------------ names
\* Identifiers are strings; Chars gives the characters of each name used, so
\* that str::contains is computed on the text of the name.
Chars(name) ==
    CASE name = "coin"        -> <<"c", "o", "i", "n">>
      [] name = "util"        -> <<"u", "t", "i", "l">>
      [] name = "burn"        -> <<"b", "u", "r", "n">>
      [] name = "mint"        -> <<"m", "i", "n", "t">>
      [] name = "mint_helper" -> <<"m", "i", "n", "t", "_", "h", "e", "l", "p", "e", "r">>
      [] name = "ur"          -> <<"u", "r">>
      [] name = "co"          -> <<"c", "o">>

\* str::contains(pat): pat occurs as a contiguous substring.
Contains(name, pat) ==
    LET s == Chars(name)
        p == Chars(pat)
    IN  \E i \in 0 .. (Len(s) - Len(p)) : SubSeq(s, i + 1, i + Len(p)) = p

Modules == {"coin", "util"}
\* Iteration order of the module_tests map (ordered by module id).
ModuleOrder == <<"coin", "util">>
\* Substrings handed to filter.
Slices == {"mint", "ur", "co"}

\* ------------------------------------------------------------------ data
\* Option<ExpectedFailure>
NoExpectation == [kind |-> "None"]
ExpectedAny == [kind |-> "Expected"]
ExpectedWithCode(c) == [kind |-> "ExpectedWithCode", code |-> c]
\* The code only compares abort codes for equality, so one expected code
\* (the least of Codes) against every reported code covers both outcomes.
ExpectedCode == CHOOSE c \in Codes : \A d \in Codes : c <= d
ExpectedFailures == {NoExpectation, ExpectedAny, ExpectedWithCode(ExpectedCode)}

\* Result of session.execute_function: Ok, or a VMError with a major status
\* and an optional sub status (<<>> is None, <<c>> is Some(c)).
OUT_OF_GAS == "OUT_OF_GAS"
ABORTED == "ABORTED"
OTHER_STATUS == "OTHER"
MajorStatuses == {OUT_OF_GAS, ABORTED, OTHER_STATUS}
SubStatuses == {<<>>} \cup {<<c>> : c \in Codes}
VMOk == [ok |-> TRUE]
VMError(major, sub) == [ok |-> FALSE, major |-> major, sub |-> sub]
VMErrors == {VMError(ma, su) : ma \in MajorStatuses, su \in SubStatuses}
VMResults == {VMOk} \cup VMErrors

\* FailureReason constructors
timeout == [kind |-> "timeout"]
aborted(code) == [kind |-> "aborted", code |-> code]
wrong_abort(code, other_code) ==
    [kind |-> "wrong_abort", expected |-> code, received |-> other_code]
no_abort == [kind |-> "no_abort"]
unknown == [kind |-> "unknown"]

\* TestFailure::new(reason, fn_name, vm_error); vm_error is <<>> or <<err>>.
TestFailure(reason, fn_name, vm_error) ==
    [failure_reason |-> reason, test_name |-> fn_name, vm_error |-> vm_error]

\* ------------------------------------------------------------ TestStatistics
\* passed: number of passed tests; failed: map from module id to the list of
\* its failures (a module has an entry only once it has a failure).
TestStatistics_new == [passed |-> 0, failed |-> << >>]

test_success(stats) == [stats EXCEPT !.passed = @ + 1]

test_failure(stats, failure, module_id) ==
    [stats EXCEPT !.failed =
        [m \in (DOMAIN stats.failed) \cup {module_id} |->
            IF m = module_id
            THEN (IF m \in DOMAIN stats.failed THEN stats.failed[m] ELSE << >>)
                    \o <<failure>>
            ELSE stats.failed[m]]]

\* Variant: a module's list in b replaces the one in a instead of extending it.
combine_overwrite(a, b) ==
    [passed |-> a.passed + b.passed,
     failed |-> [m \in (DOMAIN a.failed) \cup (DOMAIN b.failed) |->
                    IF m \in DOMAIN b.failed THEN b.failed[m] ELSE a.failed[m]]]

combine(a, b) ==
    [passed |-> a.passed + b.passed,
     failed |-> [m \in (DOMAIN a.failed) \cup (DOMAIN b.failed) |->
                    (IF m \in DOMAIN a.failed THEN a.failed[m] ELSE << >>)
                 \o (IF m \in DOMAIN b.failed THEN b.failed[m] ELSE << >>)]]

\* ------------------------------------------------------- exec_module_tests
\* Each arm of the match yields the updated statistics and the tag of the
\* verdict line it prints.
\* Variant: the out-of-gas test also requires that no sub status is present.
IsOutOfGasNoSubStatus(err) == err.major = OUT_OF_GAS /\ err.sub = << >>

IsOutOfGas(err) == err.major = OUT_OF_GAS

\* Variant: the comparison of the two codes is inverted.
CodeMatchesInverted(err, code, other_code) == err.major = ABORTED /\ code # other_code

CodeMatches(err, code, other_code) == err.major = ABORTED /\ code = other_code

TimeoutArm(stats, module_id, fn, err) ==
    [line |-> "TIMEOUT",
     stats |-> test_failure(stats, TestFailure(timeout, fn, <<err>>), module_id)]

\* Variant: the failure is built without the VM error.
AbortedArmNoError(stats, module_id, fn, code, err) ==
    [line |-> "FAIL",
     stats |-> test_failure(stats, TestFailure(aborted(code), fn, << >>), module_id)]

AbortedArm(stats, module_id, fn, code, err) ==
    [line |-> "FAIL",
     stats |-> test_failure(stats, TestFailure(aborted(code), fn, <<err>>), module_id)]

\* Variant: the PASS line is printed but test_success is not called.
PassArmUncounted(stats) ==
    [line |-> "PASS", stats |-> stats]

PassArm(stats) ==
    [line |-> "PASS", stats |-> test_success(stats)]

WrongAbortArm(stats, module_id, fn, code, other_code, err) ==
    [line |-> "FAIL",
     stats |-> test_failure(stats,
                   TestFailure(wrong_abort(code, other_code), fn, <<err>>), module_id)]

\* Variant: the failure is built with the timeout reason.
UnknownArmAsTimeout(stats, module_id, fn, err) ==
    [line |-> "FAIL",
     stats |-> test_failure(stats, TestFailure(timeout, fn, <<err>>), module_id)]

UnknownArm(stats, module_id, fn, err) ==
    [line |-> "FAIL",
     stats |-> test_failure(stats, TestFailure(unknown, fn, <<err>>), module_id)]

\* Variant: the FAIL line is printed but no failure is recorded.
NoAbortArmUnrecorded(stats, module_id, fn) ==
    [line |-> "FAIL", stats |-> stats]

\* Variant: the failure is built with the unknown reason.
NoAbortArmAsUnknown(stats, module_id, fn) ==
    [line |-> "FAIL",
     stats |-> test_failure(stats, TestFailure(unknown, fn, << >>), module_id)]

NoAbortArm(stats, module_id, fn) ==
    [line |-> "FAIL",
     stats |-> test_failure(stats, TestFailure(no_abort, fn, << >>), module_id)]

\* The match on the result of execute_function, arms tried in source order.
MatchOutcome(stats, module_id, fn, expected_failure, res) ==
    IF ~res.ok
    THEN
        IF IsOutOfGas(res)
            THEN TimeoutArm(stats, module_id, fn, res)
        ELSE IF expected_failure.kind = "None" /\ res.sub # << >>
            THEN AbortedArm(stats, module_id, fn, res.sub[1], res)
        ELSE IF expected_failure.kind = "ExpectedWithCode" /\ res.sub # << >>
                /\ CodeMatches(res, expected_failure.code, res.sub[1])
            THEN PassArm(stats)
        ELSE IF expected_failure.kind = "ExpectedWithCode" /\ res.sub # << >>
            THEN WrongAbortArm(stats, module_id, fn, expected_failure.code, res.sub[1], res)
        ELSE IF expected_failure.kind = "Expected" /\ res.sub # << >>
            THEN PassArm(stats)
        ELSE UnknownArm(stats, module_id, fn, res)
    ELSE
        IF expected_failure.kind # "None"
            THEN NoAbortArm(stats, module_id, fn)
        ELSE PassArm(stats)

\* ------------------------------------------------------------------ filter
\* Variant: the tests are narrowed even when the module's name matches.
FilterModuleAlwaysNarrow(module_id, module_test, test_name_slice) ==
    SelectSeq(module_test, LAMBDA t : Contains(t.name, test_name_slice))

\* Variant: a module with at least one matching test keeps all its tests.
FilterModuleKeepIfAny(module_id, module_test, test_name_slice) ==
    IF Contains(module_id, test_name_slice)
           \/ \E i \in 1 .. Len(module_test) : Contains(module_test[i].name, test_name_slice)
    THEN module_test
    ELSE << >>

\* Variant: the map entry of a module whose name matches is advanced past
\* its first test before the loop continues.
FilterModuleSkipFirst(module_id, module_test, test_name_slice) ==
    IF Contains(module_id, test_name_slice)
    THEN (IF module_test = << >> THEN module_test ELSE Tail(module_test))
    ELSE SelectSeq(module_test, LAMBDA t : Contains(t.name, test_name_slice))

\* Tests of one module after filter(test_name_slice).
FilterModule(module_id, module_test, test_name_slice) ==
    IF Contains(module_id, test_name_slice)
    THEN module_test
    ELSE SelectSeq(module_test, LAMBDA t : Contains(t.name, test_name_slice))

\* ------------------------------------------------------------------ state
VARIABLES
    tests,        \* TestRunner.tests.module_tests: module id -> tests in map order
    num_threads,  \* TestRunner.num_threads
    phase,        \* "new" (constructed), "running" (inside run), "done" (run returned)
    nfilters,     \* number of filter calls made
    task,         \* per module: state of its exec_module_tests call
    worker,       \* per pool thread: the module it is executing, or "idle"
    vm_outcome,   \* per module: results execute_function has returned so far
    writer,       \* the output sink: lines written so far
    segs,         \* partial statistics inside the parallel reduce
    results,      \* value returned by run: << >> or <<TestResults>>
    acc_a, acc_b, acc_c,  \* three statistics accumulators handed to combine
    combined,     \* << >>, or the results of combining them
    filter_log,   \* the filter calls made: the slice, and the plan before the call
    storage,      \* SharedTestingConfig.starting_storage_state
    execution_bound,  \* SharedTestingConfig.execution_bound
    body,         \* per module: what each test function does when executed
    lock,         \* the writer's mutex: "free" or the module whose call holds it
    counter_next, \* Counter::next's static COUNTER_NEXT
    returned      \* the values Counter::next has returned, in order

algVars == <<acc_a, acc_b, acc_c, combined>>

auxVars == <<storage, execution_bound, body, lock, counter_next, returned>>

vars == <<tests, num_threads, phase, nfilters, task, worker, vm_outcome, writer,
          segs, results, acc_a, acc_b, acc_c, combined, filter_log,
          storage, execution_bound, body, lock, counter_next, returned>>

Workers == 1 .. MaxThreads

TestInfo(name, expected_failure) == [name |-> name, expected_failure |-> expected_failure]

\* Test plans handed to TestRunner::new: two modules, tests in name order,
\* the three kinds of expectation declared once each, in every arrangement.
PlanOf(e1, e2, e3) ==
    [m \in Modules |->
        IF m = "coin"
        THEN <<TestInfo("burn", e1), TestInfo("mint", e2)>>
        ELSE <<TestInfo("mint_helper", e3)>>]

TestPlans ==
    {PlanOf(e[1], e[2], e[3]) :
        e \in {x \in ExpectedFailures \X ExpectedFailures \X ExpectedFailures :
                  x[1] # x[2] /\ x[1] # x[3] /\ x[2] # x[3]}}

NewTask == [pc |-> "todo", idx |-> 0, stats |-> TestStatistics_new]

Init ==
    /\ tests \in TestPlans
    /\ num_threads \in 1 .. MaxThreads
    /\ phase = "new"
    /\ nfilters = 0
    /\ task = [m \in Modules |-> NewTask]
    /\ worker = [w \in Workers |-> "idle"]
    /\ vm_outcome = [m \in Modules |-> << >>]
    /\ writer = << >>
    /\ segs = {}
    /\ results = << >>
    /\ acc_a = TestStatistics_new
    /\ acc_b = TestStatistics_new
    /\ acc_c = TestStatistics_new
    /\ combined = << >>
    /\ filter_log = << >>
    /\ storage = << >>
    /\ execution_bound = 0
    /\ body = << >>
    /\ lock = "free"
    /\ counter_next = 0
    /\ returned = << >>

\* TestRunner::filter
Filter(test_name_slice) ==
    /\ phase = "new"
    /\ nfilters < MaxFilters
    /\ tests' = [m \in Modules |-> FilterModule(m, tests[m], test_name_slice)]
    /\ nfilters' = nfilters + 1
    /\ filter_log' = Append(filter_log, [slice |-> test_name_slice, before |-> tests])
    /\ UNCHANGED <<num_threads, phase, task, worker, vm_outcome, writer, segs, results>>
    /\ UNCHANGED <<algVars, auxVars>>

\* TestRunner::run: the pool is built and installed.
Run ==
    /\ phase = "new"
    /\ phase' = "running"
    /\ UNCHANGED <<tests, num_threads, nfilters, task, worker, vm_outcome, writer,
                   segs, results>>
    /\ UNCHANGED <<algVars, auxVars, filter_log>>

\* Variant: the item is not taken off the iterator, so another thread can
\* take the same module.
StartModuleNotTaken(w, m) ==
    /\ phase = "running"
    /\ w <= num_threads
    /\ worker[w] = "idle"
    /\ task[m].pc \in {"todo", "running"}
    /\ task' = [task EXCEPT ![m].pc = "running"]
    /\ worker' = [worker EXCEPT ![w] = m]
    /\ UNCHANGED <<tests, num_threads, phase, nfilters, vm_outcome, writer, segs, results>>
    /\ UNCHANGED <<algVars, auxVars, filter_log>>

\* A pool thread takes one module's test plan (one item of the par_iter).
StartModule(w, m) ==
    /\ phase = "running"
    /\ w <= num_threads
    /\ worker[w] = "idle"
    /\ task[m].pc = "todo"
    /\ task' = [task EXCEPT ![m].pc = "running"]
    /\ worker' = [worker EXCEPT ![w] = m]
    /\ UNCHANGED <<tests, num_threads, phase, nfilters, vm_outcome, writer, segs, results>>
    /\ UNCHANGED <<algVars, auxVars, filter_log>>

\* One iteration of the loop over test_plan.tests: run the function in a fresh
\* session, print the verdict line under the writer's lock, update stats.
ExecTest(w) ==
    /\ worker[w] # "idle"
    /\ LET m == worker[w]
           i == task[m].idx + 1
       IN  /\ i <= Len(tests[m])
           /\ \E res \in VMResults :
                LET t == tests[m][i]
                    out == MatchOutcome(task[m].stats, m, t.name, t.expected_failure, res)
                IN  /\ vm_outcome' = [vm_outcome EXCEPT ![m] = Append(@, res)]
                    /\ writer' = Append(writer,
                                    [tag |-> out.line, module_id |-> m, fn |-> t.name])
                    /\ task' = [task EXCEPT ![m].idx = i, ![m].stats = out.stats]
    /\ UNCHANGED <<tests, num_threads, phase, nfilters, worker, segs, results>>
    /\ UNCHANGED <<algVars, auxVars, filter_log>>

\* Variant: the failures of stats are kept only while acc has none.
reduce_op_keep_first(acc, stats) ==
    [passed |-> acc.passed + stats.passed,
     failed |-> IF DOMAIN acc.failed = {} THEN stats.failed ELSE acc.failed]

\* reduce's operator: |acc, stats| acc.combine(stats)
reduce_op(acc, stats) == combine(acc, stats)

\* exec_module_tests returns its stats; the reduce folds it into a fresh
\* identity (TestStatistics::new) for this item.
ReturnStats(w) ==
    /\ worker[w] # "idle"
    /\ LET m == worker[w]
       IN  /\ task[m].idx = Len(tests[m])
           /\ segs' = segs \cup
                  {[mods |-> {m}, stats |-> reduce_op(TestStatistics_new, task[m].stats)]}
           /\ task' = [task EXCEPT ![m].pc = "returned", ![m].stats = TestStatistics_new]
    /\ worker' = [worker EXCEPT ![w] = "idle"]
    /\ UNCHANGED <<tests, num_threads, phase, nfilters, vm_outcome, writer, results>>
    /\ UNCHANGED <<algVars, auxVars, filter_log>>

\* Two partial results of the reduce are combined; which two, and which of
\* them is the accumulator, is up to the scheduler.
Reduce(a, b) ==
    /\ phase = "running"
    /\ a \in segs /\ b \in segs /\ a # b
    /\ segs' = (segs \ {a, b}) \cup
           {[mods |-> a.mods \cup b.mods, stats |-> reduce_op(a.stats, b.stats)]}
    /\ UNCHANGED <<tests, num_threads, phase, nfilters, task, worker, vm_outcome,
                   writer, results>>
    /\ UNCHANGED <<algVars, auxVars, filter_log>>

\* TestResults::new(final_statistics, self.tests)
TestResults_new(final_statistics, test_plan) ==
    [final_statistics |-> final_statistics, test_plan |-> test_plan]

\* The reduce is complete: run returns Ok(TestResults).
Finish ==
    /\ phase = "running"
    /\ \A m \in Modules : task[m].pc = "returned"
    /\ \E s \in segs :
          /\ segs = {s}
          /\ results' = <<TestResults_new(s.stats, tests)>>
    /\ phase' = "done"
    /\ UNCHANGED <<tests, num_threads, nfilters, task, worker, vm_outcome, writer, segs>>
    /\ UNCHANGED <<algVars, auxVars, filter_log>>

Next ==
    \/ \E s \in Slices : Filter(s)
    \/ Run
    \/ \E w \in Workers, m \in Modules : StartModule(w, m)
    \/ \E w \in Workers : ExecTest(w)
    \/ \E w \in Workers : ReturnStats(w)
    \/ \E a \in segs, b \in segs : Reduce(a, b)
    \/ Finish

Spec == Init /\ [][Next]_vars

\* ------------------------------------------------- combine on its own
\* Failure records a module's list may hold: one per test of the module.
FailureSamples(m) ==
    IF m = "coin"
    THEN {TestFailure(timeout, "burn", <<VMError(OUT_OF_GAS, << >>)>>),
          TestFailure(no_abort, "mint", << >>)}
    ELSE {TestFailure(unknown, "mint_helper", <<VMError(OTHER_STATUS, << >>)>>)}

NonEmptyLists(m) == UNION {[1 .. k -> FailureSamples(m)] : k \in 1 .. MaxListLen}

FailedMaps ==
    UNION {{f \in [D -> UNION {NonEmptyLists(m) : m \in D}] :
              \A m \in D : f[m] \in NonEmptyLists(m)} : D \in SUBSET Modules}

Accumulators == {[passed |-> p, failed |-> f] : p \in 0 .. MaxPassed, f \in FailedMaps}

\* Three arbitrary accumulators; the runner itself stays as constructed.
InitCombine ==
    /\ tests = [m \in Modules |-> << >>]
    /\ num_threads = 1
    /\ phase = "new"
    /\ nfilters = 0
    /\ task = [m \in Modules |-> NewTask]
    /\ worker = [w \in Workers |-> "idle"]
    /\ vm_outcome = [m \in Modules |-> << >>]
    /\ writer = << >>
    /\ segs = {}
    /\ results = << >>
    /\ acc_a \in Accumulators
    /\ acc_b \in Accumulators
    /\ acc_c \in Accumulators
    /\ combined = << >>
    /\ filter_log = << >>
    /\ storage = << >>
    /\ execution_bound = 0
    /\ body = << >>
    /\ lock = "free"
    /\ counter_next = 0
    /\ returned = << >>

\* combine applied to the accumulators in the groupings of interest.
ApplyCombine ==
    /\ combined = << >>
    /\ combined' = <<[ab    |-> combine(acc_a, acc_b),
                      ba    |-> combine(acc_b, acc_a),
                      ab_c  |-> combine(combine(acc_a, acc_b), acc_c),
                      a_bc  |-> combine(acc_a, combine(acc_b, acc_c)),
                      new_a |-> combine(TestStatistics_new, acc_a)]>>
    /\ UNCHANGED <<tests, num_threads, phase, nfilters, task, worker, vm_outcome,
                   writer, segs, results, acc_a, acc_b, acc_c, filter_log>>
    /\ UNCHANGED auxVars

NextCombine == ApplyCombine

SpecCombine == InitCombine /\ [][NextCombine]_vars

Range(seq) == {seq[i] : i \in 1 .. Len(seq)}
TestNames(module_test) == [i \in 1 .. Len(module_test) |-> module_test[i].name]

\* ------------------------------------------- the run, statement by statement
\* The same runner with TestRunner::new, the build of the pool and every
\* statement of one loop iteration of exec_module_tests as separate steps.

\* Serialized form of module m, as published into the storage.
ModuleBytes(m) == <<"bytes", m>>

\* setup_test_storage: publish each module in turn; a module that fails to
\* serialize ends the loop with the error (bad is the set of such modules).
RECURSIVE setup_test_storage(_, _, _)
setup_test_storage(order, bad, acc) ==
    IF order = << >> THEN [ok |-> TRUE, storage |-> acc]
    ELSE IF Head(order) \in bad THEN [ok |-> FALSE, storage |-> << >>]
    ELSE setup_test_storage(Tail(order), bad,
             [m \in (DOMAIN acc) \cup {Head(order)} |->
                 IF m = Head(order) THEN ModuleBytes(m) ELSE acc[m]])

\* What a test function does when run: the units its body needs, and how it
\* ends when it gets them.
Behaviours ==
    {[cost |-> ShortBody, end |-> VMOk],
     [cost |-> ShortBody, end |-> VMError(ABORTED, <<ExpectedCode>>)],
     [cost |-> LongBody, end |-> VMOk]}

\* The plan of the statement-level run: one test of each expectation.
StepPlan == PlanOf(NoExpectation, ExpectedWithCode(ExpectedCode), ExpectedAny)

NewStepTask ==
    [pc |-> "todo", idx |-> 0, stats |-> TestStatistics_new,
     session |-> << >>, gas |-> << >>, res |-> << >>]

\* Before TestRunner::new is called.
InitSteps ==
    /\ tests = StepPlan
    /\ body \in [Modules -> [{"burn", "mint", "mint_helper"} -> Behaviours]]
    /\ \A m \in Modules : \A n \in {"burn", "mint", "mint_helper"} :
          n \notin Range(TestNames(StepPlan[m])) => body[m][n] = [cost |-> ShortBody, end |-> VMOk]
    /\ num_threads \in 1 .. MaxThreads
    /\ execution_bound = ExecutionBound
    /\ phase = "init"
    /\ nfilters = 0
    /\ task = [m \in Modules |-> NewStepTask]
    /\ worker = [w \in Workers |-> "idle"]
    /\ vm_outcome = [m \in Modules |-> << >>]
    /\ writer = << >>
    /\ segs = {}
    /\ results = << >>
    /\ acc_a = TestStatistics_new
    /\ acc_b = TestStatistics_new
    /\ acc_c = TestStatistics_new
    /\ combined = << >>
    /\ filter_log = << >>
    /\ storage = << >>
    /\ lock = "free"
    /\ counter_next = 0
    /\ returned = << >>

stepFrame == <<acc_a, acc_b, acc_c, combined, filter_log, counter_next, returned,
               num_threads, execution_bound, body, nfilters, segs>>

\* TestRunner::new: the storage is set up from the modules of the plan; an
\* error of setup_test_storage is returned by `?` and no runner is built.
New(bad) ==
    /\ phase = "init"
    /\ LET r == setup_test_storage(ModuleOrder, bad, << >>)
       IN  IF r.ok
           THEN /\ storage' = r.storage
                /\ phase' = "new"
                /\ results' = results
           ELSE /\ storage' = storage
                /\ phase' = "new_failed"
                /\ results' = <<[err |-> "serialize"]>>
    /\ UNCHANGED <<tests, task, worker, vm_outcome, writer, lock>>
    /\ UNCHANGED stepFrame

\* TestRunner::run when ThreadPoolBuilder::build returns Err: the unwrap()
\* on the result panics; run does not return.
RunPoolFails ==
    /\ phase = "new"
    /\ phase' = "panicked"
    /\ UNCHANGED <<tests, task, worker, vm_outcome, writer, lock, storage, results>>
    /\ UNCHANGED stepFrame

\* Variant: one gas status is kept for all the tests of a module.
NewGasStatusLeftover(bound, left) == IF left = << >> THEN bound ELSE left[1]

\* GasStatus::new(&self.cost_table, GasUnits::new(self.execution_bound)),
\* built anew for the call; left is what the previous test's status had left.
NewGasStatus(bound, left) == bound

\* MoveVM::new(); move_vm.new_session(&self.starting_storage_state)
OpenSession(w) ==
    /\ worker[w] # "idle"
    /\ LET m == worker[w]
       IN  /\ task[m].pc = "running"
           /\ task[m].idx < Len(tests[m])
           /\ task' = [task EXCEPT
                  ![m].pc = "session",
                  ![m].session = <<[base |-> storage, cache |-> << >>]>>,
                  ![m].gas = <<NewGasStatus(execution_bound, task[m].gas)>>]
    /\ UNCHANGED <<tests, phase, worker, vm_outcome, writer, lock, storage, results>>
    /\ UNCHANGED stepFrame

\* The VM under the unit cost table: a body that needs more units than the
\* gas status holds ends in OUT_OF_GAS; otherwise it ends as written and the
\* units are deducted.
execute_function(b, gas) ==
    IF b.cost > gas
    THEN [res |-> VMError(OUT_OF_GAS, << >>), gas_left |-> 0]
    ELSE [res |-> b.end, gas_left |-> gas - b.cost]

\* session.execute_function(...): effects of the test go to the session.
ExecuteFunction(w) ==
    /\ worker[w] # "idle"
    /\ LET m == worker[w]
           t == tests[m][task[m].idx + 1]
           r == execute_function(body[m][t.name], task[m].gas[1])
       IN  /\ task[m].pc = "session"
           /\ task' = [task EXCEPT
                  ![m].pc = "matched",
                  ![m].res = <<r.res>>,
                  ![m].gas = <<r.gas_left>>,
                  ![m].session = <<[task[m].session[1] EXCEPT !.cache = <<t.name>>]>>]
           /\ vm_outcome' = [vm_outcome EXCEPT ![m] = Append(@, r.res)]
    /\ UNCHANGED <<tests, phase, worker, writer, lock, storage, results>>
    /\ UNCHANGED stepFrame

\* The arm of the match taken for the test in hand.
StepOutcome(m) ==
    LET t == tests[m][task[m].idx + 1]
    IN  MatchOutcome(task[m].stats, m, t.name, t.expected_failure, task[m].res[1])

\* Variant: lock() never waits.
LockAlwaysAvailable(l) == TRUE

\* Mutex::lock returns once no other guard exists.
LockAvailable(l) == l = "free"

\* writer.lock().unwrap() inside pass / fail / timeout
LockWriter(w) ==
    /\ worker[w] # "idle"
    /\ LET m == worker[w]
       IN  /\ task[m].pc = "matched"
           /\ LockAvailable(lock)
           /\ lock' = m
           /\ task' = [task EXCEPT ![m].pc = "locked"]
    /\ UNCHANGED <<tests, phase, worker, vm_outcome, writer, storage, results>>
    /\ UNCHANGED stepFrame

\* writeln!: the formatted line reaches the sink in pieces, first the tag.
WriteTag(w) ==
    /\ worker[w] # "idle"
    /\ LET m == worker[w]
       IN  /\ task[m].pc = "locked"
           /\ writer' = Append(writer,
                  [part |-> "tag", tag |-> StepOutcome(m).line, module_id |-> m])
           /\ task' = [task EXCEPT ![m].pc = "tagged"]
    /\ UNCHANGED <<tests, phase, worker, vm_outcome, lock, storage, results>>
    /\ UNCHANGED stepFrame

\* Variant: the guard outlives the statement.
LeakGuard(l) == l

\* The MutexGuard is a temporary of the writeln! statement and is dropped
\* at its end.
DropGuard(l) == "free"

\* writeln!: module::function and the newline; the guard is dropped at the
\* end of the statement.
WriteName(w) ==
    /\ worker[w] # "idle"
    /\ LET m == worker[w]
       IN  /\ task[m].pc = "tagged"
           /\ writer' = Append(writer,
                  [part |-> "name", module_id |-> m,
                   fn |-> tests[m][task[m].idx + 1].name])
           /\ lock' = DropGuard(lock)
           /\ task' = [task EXCEPT ![m].pc = "printed"]
    /\ UNCHANGED <<tests, phase, worker, vm_outcome, storage, results>>
    /\ UNCHANGED stepFrame

\* Variant: the effects of the session are written back to the storage.
CommitSession(store, session) ==
    IF session.cache = << >> THEN store
    ELSE [m \in DOMAIN store |-> <<"bytes", m, session.cache>>]

\* The session goes out of scope at the end of the iteration; nothing of it
\* is written back to the storage it was opened on.
DropSession(store, session) == store

\* stats.test_success() / stats.test_failure(...), end of the iteration.
RecordStats(w) ==
    /\ worker[w] # "idle"
    /\ LET m == worker[w]
       IN  /\ task[m].pc = "printed"
           /\ storage' = DropSession(storage, task[m].session[1])
           /\ task' = [task EXCEPT
                  ![m].pc = "running",
                  ![m].idx = @ + 1,
                  ![m].stats = StepOutcome(m).stats,
                  ![m].session = << >>,
                  ![m].res = << >>]
    /\ UNCHANGED <<tests, phase, worker, vm_outcome, writer, lock, results>>
    /\ UNCHANGED stepFrame

NextSteps ==
    \/ \E bad \in SUBSET Modules : New(bad)
    \/ \E s \in Slices : Filter(s)
    \/ Run
    \/ RunPoolFails
    \/ \E w \in Workers, m \in Modules : StartModule(w, m)
    \/ \E w \in Workers : OpenSession(w)
    \/ \E w \in Workers : ExecuteFunction(w)
    \/ \E w \in Workers : LockWriter(w)
    \/ \E w \in Workers : WriteTag(w)
    \/ \E w \in Workers : WriteName(w)
    \/ \E w \in Workers : RecordStats(w)
    \/ \E w \in Workers : ReturnStats(w)
    \/ \E a \in segs, b \in segs : Reduce(a, b)
    \/ Finish

SpecSteps == InitSteps /\ [][NextSteps]_vars

\* What one pool thread does next: take a module, or go on with its module.
WorkerStep(w) ==
    \/ \E m \in Modules : StartModule(w, m)
    \/ OpenSession(w)
    \/ ExecuteFunction(w)
    \/ LockWriter(w)
    \/ WriteTag(w)
    \/ WriteName(w)
    \/ RecordStats(w)
    \/ ReturnStats(w)

\* The pool threads are OS threads and each keeps running; the reduce and
\* the return of run happen once their operands are there. Nothing is
\* assumed about new, filter or the build of the pool.
StepsFairness ==
    /\ \A w \in Workers : WF_vars(WorkerStep(w))
    /\ WF_vars(\E a \in segs, b \in segs : Reduce(a, b))
    /\ WF_vars(Finish)

SpecStepsFair == SpecSteps /\ StepsFairness

\* -------------------------------------------------------------- Counter::next
\* Threads that call Counter::next.
Callers == {"t1", "t2"}
UsizeModulus == 2 ^ UsizeBits
\* Calls followed: enough for the counter to go once round.
MaxCalls == UsizeModulus + 1

\* AtomicUsize::fetch_add(1, AcqRel): returns the previous value and stores
\* the sum, wrapping around on overflow.
fetch_add(value, n) == (value + n) % UsizeModulus

\* COUNTER_NEXT is a static initialised to 0.
InitCounter ==
    /\ counter_next = 0
    /\ returned = << >>
    /\ tests = [m \in Modules |-> << >>]
    /\ num_threads = 1
    /\ phase = "new"
    /\ nfilters = 0
    /\ task = [m \in Modules |-> NewTask]
    /\ worker = [w \in Workers |-> "idle"]
    /\ vm_outcome = [m \in Modules |-> << >>]
    /\ writer = << >>
    /\ segs = {}
    /\ results = << >>
    /\ acc_a = TestStatistics_new
    /\ acc_b = TestStatistics_new
    /\ acc_c = TestStatistics_new
    /\ combined = << >>
    /\ filter_log = << >>
    /\ storage = << >>
    /\ execution_bound = 0
    /\ body = << >>
    /\ lock = "free"

\* Counter::next() called by thread c; the read and the increment are one
\* atomic operation.
Counter_next(c) ==
    /\ Len(returned) < MaxCalls
    /\ returned' = Append(returned, [caller |-> c, value |-> counter_next])
    /\ counter_next' = fetch_add(counter_next, 1)
    /\ UNCHANGED <<tests, num_threads, phase, nfilters, task, worker, vm_outcome,
                   writer, segs, results, acc_a, acc_b, acc_c, combined,
                   filter_log, storage, execution_bound, body, lock>>

NextCounter == \E c \in Callers : Counter_next(c)

SpecCounter == InitCounter /\ [][NextCounter]_vars

TypeOK ==
    /\ phase \in {"init", "new_failed", "new", "panicked", "running", "done"}
    /\ num_threads \in 1 .. MaxThreads
    /\ lock \in Modules \cup {"free"}

\* ================================================================ properties
\* Failure list of module m in stats (empty when m has no entry).
FailedOf(stats, m) == IF m \in DOMAIN stats.failed THEN stats.failed[m] ELSE << >>

\* The step executes the next test of module m.
Executed(m) == task'[m].idx = task[m].idx + 1
\* The test executed by that step, and what execute_function returned for it.
StepTest(m) == tests[m][task[m].idx + 1]
StepRes(m) == vm_outcome'[m][task[m].idx + 1]
StepLine(m) == writer'[Len(writer')]
\* The step appended exactly failure f to m's list and left the pass count.
Recorded(m, f) ==
    /\ FailedOf(task'[m].stats, m) = Append(FailedOf(task[m].stats, m), f)
    /\ task'[m].stats.passed = task[m].stats.passed
\* The step added one to the pass count and recorded no failure.
CountedAsPass(m) ==
    /\ task'[m].stats.passed = task[m].stats.passed + 1
    /\ task'[m].stats.failed = task[m].stats.failed
NonGasError(res) == ~res.ok /\ res.major # OUT_OF_GAS

\* Test i of module m has been executed by the call that is still running.
Ran(m, i) == task[m].pc = "running" /\ i \in 1 .. task[m].idx
FailureIn(m, f) ==
    \E j \in 1 .. Len(FailedOf(task[m].stats, m)) : FailedOf(task[m].stats, m)[j] = f

\* C1: whatever the declared expectation and whatever the sub status, a test
\* whose VM error has major status OUT_OF_GAS gets the TIMEOUT line and a
\* timeout failure holding that error, and the pass count does not move.
C1_OutOfGasIsTimeout ==
    [][\A m \in Modules :
          (Executed(m) /\ ~StepRes(m).ok /\ StepRes(m).major = OUT_OF_GAS)
          => /\ Recorded(m, TestFailure(timeout, StepTest(m).name, <<StepRes(m)>>))
             /\ StepLine(m).tag = "TIMEOUT"]_vars

\* C1 witness: a test expecting code C ran out of gas with sub status C and
\* is recorded as a timeout.
C1_Witness ==
    \E m \in Modules : \E i \in 1 .. Len(tests[m]) :
        /\ Ran(m, i)
        /\ tests[m][i].expected_failure = ExpectedWithCode(ExpectedCode)
        /\ vm_outcome[m][i] = VMError(OUT_OF_GAS, <<ExpectedCode>>)
        /\ FailureIn(m, TestFailure(timeout, tests[m][i].name, <<vm_outcome[m][i]>>))
        /\ task[m].stats.passed = 0

\* C3 (as claimed): for a test declared ExpectedWithCode(C) whose error is not
\* out of gas and carries sub status D, a wrong-abort failure is recorded
\* exactly when D differs from C.
C3_WrongAbortIffCodesDiffer ==
    [][\A m \in Modules :
          (/\ Executed(m)
           /\ StepTest(m).expected_failure.kind = "ExpectedWithCode"
           /\ NonGasError(StepRes(m))
           /\ StepRes(m).sub # << >>)
          => (Recorded(m, TestFailure(
                            wrong_abort(StepTest(m).expected_failure.code,
                                        StepRes(m).sub[1]),
                            StepTest(m).name, <<StepRes(m)>>))
              <=> StepRes(m).sub[1] # StepTest(m).expected_failure.code)]_vars

\* C4: a test declared ExpectedWithCode(C) that ends in ABORTED with sub
\* status C gets the PASS line, adds one to the pass count and records no
\* failure.
C4_MatchingAbortPasses ==
    [][\A m \in Modules :
          (/\ Executed(m)
           /\ StepTest(m).expected_failure.kind = "ExpectedWithCode"
           /\ StepRes(m) = VMError(ABORTED, <<StepTest(m).expected_failure.code>>))
          => CountedAsPass(m) /\ StepLine(m).tag = "PASS"]_vars

\* C4 witness: such a test has run and is the one pass of its module.
C4_Witness ==
    \E m \in Modules : \E i \in 1 .. Len(tests[m]) :
        /\ Ran(m, i) /\ task[m].idx = i
        /\ tests[m][i].expected_failure = ExpectedWithCode(ExpectedCode)
        /\ vm_outcome[m][i] = VMError(ABORTED, <<ExpectedCode>>)
        /\ task[m].stats.passed >= 1
        /\ Len(FailedOf(task[m].stats, m)) = i - 1

\* C5: a test with no declared expectation whose error is not out of gas and
\* carries sub status C is recorded as aborted(C) together with the error.
C5_UnexpectedAbortRecorded ==
    [][\A m \in Modules :
          (/\ Executed(m)
           /\ StepTest(m).expected_failure.kind = "None"
           /\ NonGasError(StepRes(m))
           /\ StepRes(m).sub # << >>)
          => /\ Recorded(m, TestFailure(aborted(StepRes(m).sub[1]),
                                        StepTest(m).name, <<StepRes(m)>>))
             /\ StepLine(m).tag = "FAIL"]_vars

\* C5 witness: a test with no expectation aborted with code 7 and is recorded
\* with that code and that error.
C5_Witness ==
    \E m \in Modules : \E i \in 1 .. Len(tests[m]) :
        /\ Ran(m, i)
        /\ tests[m][i].expected_failure = NoExpectation
        /\ vm_outcome[m][i] = VMError(ABORTED, <<ExpectedCode>>)
        /\ FailureIn(m, TestFailure(aborted(ExpectedCode), tests[m][i].name,
                                    <<VMError(ABORTED, <<ExpectedCode>>)>>))

\* C6: a test declared Expected (any code) whose error is not out of gas and
\* carries a sub status is counted as a pass, whatever the code.
C6_ExpectedAnyCodePasses ==
    [][\A m \in Modules :
          (/\ Executed(m)
           /\ StepTest(m).expected_failure.kind = "Expected"
           /\ NonGasError(StepRes(m))
           /\ StepRes(m).sub # << >>)
          => CountedAsPass(m) /\ StepLine(m).tag = "PASS"]_vars

\* C6 witness: a test declared Expected aborted with a code other than the
\* least one and counts as a pass.
C6_Witness ==
    \E m \in Modules : \E i \in 1 .. Len(tests[m]) :
        /\ Ran(m, i) /\ task[m].idx = i
        /\ tests[m][i].expected_failure = ExpectedAny
        /\ ~vm_outcome[m][i].ok
        /\ vm_outcome[m][i].major = ABORTED
        /\ vm_outcome[m][i].sub # << >>
        /\ vm_outcome[m][i].sub # <<ExpectedCode>>
        /\ task[m].stats.passed >= 1
        /\ Len(FailedOf(task[m].stats, m)) = i - 1

\* C7: whatever the declared expectation, an error that is not out of gas and
\* carries no sub status is recorded as an unknown failure of that test; the
\* call keeps running with the next test, and a run that returns has executed
\* every test of every module.
C7_UnknownRecordedAndRunContinues ==
    /\ [](phase = "done" => \A m \in Modules : Len(vm_outcome[m]) = Len(tests[m]))
    /\ [][\A m \in Modules :
            (Executed(m) /\ NonGasError(StepRes(m)) /\ StepRes(m).sub = << >>)
            => /\ Recorded(m, TestFailure(unknown, StepTest(m).name, <<StepRes(m)>>))
               /\ StepLine(m).tag = "FAIL"
               /\ task'[m].pc = "running"
               /\ phase' = "running"]_vars

\* C7 witness: the first test of a module hit such an error, is recorded as
\* unknown, and the second test of the module has been executed after it.
C7_Witness ==
    \E m \in Modules :
        /\ Len(tests[m]) = 2 /\ Ran(m, 2)
        /\ vm_outcome[m][1] = VMError(OTHER_STATUS, << >>)
        /\ FailedOf(task[m].stats, m)[1] =
              TestFailure(unknown, tests[m][1].name, <<vm_outcome[m][1]>>)

\* C8: a test that completes without error is counted as a pass when it has
\* no declared expectation, and otherwise (Expected or ExpectedWithCode) is
\* recorded as a no_abort failure that holds no VM error.
C8_CompletedTestVerdict ==
    [][\A m \in Modules :
          (Executed(m) /\ StepRes(m).ok)
          => IF StepTest(m).expected_failure.kind = "None"
             THEN CountedAsPass(m) /\ StepLine(m).tag = "PASS"
             ELSE /\ Recorded(m, TestFailure(no_abort, StepTest(m).name, << >>))
                  /\ StepLine(m).tag = "FAIL"]_vars

\* C8 witness: in one module a test without expectation completed and passed
\* and a test declared ExpectedWithCode completed and is a no_abort failure.
C8_Witness ==
    \E m \in Modules : \E i, j \in 1 .. Len(tests[m]) :
        /\ Ran(m, i) /\ Ran(m, j)
        /\ tests[m][i].expected_failure = NoExpectation
        /\ tests[m][j].expected_failure = ExpectedWithCode(ExpectedCode)
        /\ vm_outcome[m][i].ok /\ vm_outcome[m][j].ok
        /\ task[m].stats.passed = 1
        /\ FailedOf(task[m].stats, m) = <<TestFailure(no_abort, tests[m][j].name, << >>)>>

\* Number of tests in a plan, and of failure records in statistics.
RECURSIVE SumLen(_, _)
SumLen(f, order) ==
    IF order = << >> THEN 0 ELSE Len(f[Head(order)]) + SumLen(f, Tail(order))

FailureLists(stats) == [m \in Modules |-> FailedOf(stats, m)]

\* C2: when run has returned, the statistics are about the plan run was
\* called with; every failure record names a test of its module's plan, no
\* test is named twice, pass count plus failure records equals the number of
\* tests of the plan, and exactly the tests of the plan were executed and
\* printed (a test removed by filter is neither executed nor counted).
C2_EveryTestCountedOnce ==
    phase = "done" =>
        LET st == results[1].final_statistics
            plan == results[1].test_plan
        IN  /\ plan = tests
            /\ DOMAIN st.failed \subseteq Modules
            /\ \A m \in Modules :
                  LET fl == FailedOf(st, m)
                  IN  /\ \A j \in 1 .. Len(fl) :
                            \E i \in 1 .. Len(plan[m]) : fl[j].test_name = plan[m][i].name
                      /\ \A j, k \in 1 .. Len(fl) :
                            fl[j].test_name = fl[k].test_name => j = k
                      /\ Len(vm_outcome[m]) = Len(plan[m])
            /\ st.passed + SumLen(FailureLists(st), ModuleOrder) = SumLen(plan, ModuleOrder)
            /\ Len(writer) = SumLen(plan, ModuleOrder)

\* C2 witness: a run over a plan narrowed by one filter call (one test
\* removed) has returned with one pass and one failure.
C2_Witness ==
    /\ phase = "done"
    /\ nfilters = 1
    /\ SumLen(tests, ModuleOrder) = 2
    /\ results[1].final_statistics.passed = 1
    /\ SumLen(FailureLists(results[1].final_statistics), ModuleOrder) = 1

\* What one worker produces by running the modules one after the other, in
\* map order, into a single accumulator, given the plan and the outcome of
\* each test.
RECURSIVE RunTests(_, _, _, _, _)
RunTests(stats, m, plan, outs, i) ==
    IF i > Len(plan[m])
    THEN stats
    ELSE RunTests(MatchOutcome(stats, m, plan[m][i].name, plan[m][i].expected_failure,
                               outs[m][i]).stats,
                  m, plan, outs, i + 1)

RECURSIVE SequentialRun(_, _, _, _)
SequentialRun(stats, order, plan, outs) ==
    IF order = << >>
    THEN stats
    ELSE SequentialRun(RunTests(stats, Head(order), plan, outs, 1), Tail(order), plan, outs)

\* C9: the statistics run returns depend only on the plan and on the outcome
\* of each test: for every pool size, assignment of modules to threads,
\* interleaving and order of reduction they equal what the sequential run
\* with a single accumulator yields.
C9_StatisticsIndependentOfSchedule ==
    phase = "done" =>
        results[1].final_statistics =
            SequentialRun(TestStatistics_new, ModuleOrder, tests, vm_outcome)

\* C9 witness: a run with two threads has returned in which the modules ran
\* interleaved (coin, util, coin in the sink) and both have failures.
C9_Witness ==
    /\ phase = "done"
    /\ num_threads = 2
    /\ Len(writer) = 3
    /\ writer[1].module_id = "coin" /\ writer[2].module_id = "util"
    /\ DOMAIN results[1].final_statistics.failed = Modules
    /\ Len(results[1].final_statistics.failed["coin"]) = 2

\* The two lists hold the same records, each the same number of times.
SameRecords(l1, l2) ==
    /\ Len(l1) = Len(l2)
    /\ \A i \in 1 .. Len(l1) :
          Cardinality({j \in 1 .. Len(l1) : l1[j] = l1[i]})
              = Cardinality({j \in 1 .. Len(l2) : l2[j] = l1[i]})

Associative(r) == r.ab_c = r.a_bc
LeftIdentity(r) == r.new_a = acc_a

LastFilter == filter_log[Len(filter_log)]

\* C11: after filter(s), a module whose name contains s has exactly the
\* tests it had before; any other module has exactly those of its previous
\* tests whose name contains s, each with its TestInfo unchanged, each once
\* and in the previous order.
C11_FilterPostcondition ==
    filter_log # << >> =>
        LET s == LastFilter.slice
            before == LastFilter.before
        IN  \A m \in Modules :
               IF Contains(m, s)
               THEN tests[m] = before[m]
               ELSE /\ Range(tests[m]) = {t \in Range(before[m]) : Contains(t.name, s)}
                    /\ \A i, j \in 1 .. Len(tests[m]) :
                          i < j =>
                             \E k, l \in 1 .. Len(before[m]) :
                                /\ k < l
                                /\ before[m][k] = tests[m][i]
                                /\ before[m][l] = tests[m][j]

\* C11 witness: after filter("co") module coin (name matches) still has its
\* two tests, none of which contains "co", and module util has lost its test.
C11_Witness ==
    /\ Len(filter_log) = 1
    /\ LastFilter.slice = "co"
    /\ Len(tests["coin"]) = 2
    /\ Len(LastFilter.before["util"]) = 1
    /\ tests["util"] = << >>

\* The plan of the example: coin = {burn, mint}, util = {mint_helper}.
ExamplePlan(plan) ==
    /\ TestNames(plan["coin"]) = <<"burn", "mint">>
    /\ TestNames(plan["util"]) = <<"mint_helper">>

\* C12 (as claimed): with coin = {mint, burn} and util = {mint_helper},
\* after filter("mint") coin retains both mint and burn and util keeps
\* mint_helper.
C12_FilterMintKeepsBurn ==
    (/\ Len(filter_log) = 1
     /\ LastFilter.slice = "mint"
     /\ ExamplePlan(LastFilter.before))
    => /\ Range(TestNames(tests["coin"])) = {"mint", "burn"}
       /\ TestNames(tests["util"]) = <<"mint_helper">>

\* C12 (amended): with coin = {mint, burn} and util = {mint_helper}, after
\* filter("mint") coin, whose name does not contain "mint", retains only
\* mint, with its TestInfo, and util keeps mint_helper.
C12_FilterMintDropsBurn ==
    (/\ Len(filter_log) = 1
     /\ LastFilter.slice = "mint"
     /\ ExamplePlan(LastFilter.before))
    => /\ tests["coin"] = <<LastFilter.before["coin"][2]>>
       /\ tests["util"] = LastFilter.before["util"]

\* C12 witness: filter("mint") has been applied to the plan of the example
\* and the run over the narrowed plan has printed a line for coin::mint.
C12_Witness ==
    /\ Len(filter_log) = 1
    /\ LastFilter.slice = "mint"
    /\ ExamplePlan(LastFilter.before)
    /\ TestNames(tests["coin"]) = <<"mint">>
    /\ \E k \in 1 .. Len(writer) : writer[k].module_id = "coin" /\ writer[k].fn = "mint"

\* C13: a filter call that repeats the slice of the call before it leaves
\* the plan as that call left it.
C13_FilterIdempotent ==
    \A n \in 2 .. Len(filter_log) :
        filter_log[n].slice = filter_log[n - 1].slice
        => (IF n = Len(filter_log) THEN tests ELSE filter_log[n + 1].before)
              = filter_log[n].before

\* C13 witness: filter("ur") was called twice; the first call removed tests.
C13_Witness ==
    /\ Len(filter_log) = 2
    /\ filter_log[1].slice = "ur"
    /\ filter_log[2].slice = "ur"
    /\ filter_log[1].before # filter_log[2].before
    /\ TestNames(tests["coin"]) = <<"burn">>

\* ------------------------------------------------------- order within a module
\* The lines of module m in the sink, in the order they were written.
LinesOf(m) == SelectSeq(writer, LAMBDA l : l.module_id = m)

\* C15: a module is executed by at most one pool thread, which runs its
\* tests one after the other in the order of the test map; so the lines of
\* module m in the sink name the first task[m].idx tests of m, in that order.
C15_ModuleTestsSequentialInOrder ==
    \A m \in Modules :
        /\ Cardinality({w \in Workers : worker[w] = m}) <= 1
        /\ (task[m].pc = "running" <=> \E w \in Workers : worker[w] = m)
        /\ task[m].idx <= Len(tests[m])
        /\ Len(LinesOf(m)) = task[m].idx
        /\ \A k \in 1 .. Len(LinesOf(m)) : LinesOf(m)[k].fn = tests[m][k].name

\* C15 witness: two threads ran the modules at the same time; the sink holds
\* coin::burn, then a line of util, then coin::mint.
C15_Witness ==
    /\ num_threads = 2
    /\ Len(writer) = 3
    /\ writer[1].module_id = "coin" /\ writer[1].fn = "burn"
    /\ writer[2].module_id = "util"
    /\ writer[3].module_id = "coin" /\ writer[3].fn = "mint"
    /\ task["coin"].pc = "running" /\ task["util"].pc = "running"

\* ------------------------------------------------ statement-level properties
\* The pieces written to the sink for module m, and m's complete lines.
PiecesOf(m) == SelectSeq(writer, LAMBDA p : p.module_id = m)
TagsOf(m) == SelectSeq(PiecesOf(m), LAMBDA p : p.part = "tag")
NamesOf(m) == SelectSeq(PiecesOf(m), LAMBDA p : p.part = "name")
\* exec_module_tests of m has been entered and has not returned.
InCall(m) == task[m].pc \notin {"todo", "returned"}
NoTestExecuted ==
    /\ writer = << >>
    /\ \A m \in Modules : vm_outcome[m] = << >> /\ task[m] = NewStepTask
    /\ segs = {}

\* C14: a setup failure reaches the caller as an error value before any
\* test runs: when a module fails to serialize, new returns an error; when
\* the pool cannot be built, run returns an error; in both cases nothing
\* has been executed, written or counted.
C14_SetupFailureIsErrorValue ==
    phase \in {"new_failed", "panicked"} =>
        /\ Len(results) = 1
        /\ DOMAIN results[1] = {"err"}
        /\ NoTestExecuted

\* C16: the sink has one writer at a time. A worker between lock() and the
\* end of its writeln! holds the mutex and is the only such worker; every
\* tag piece in the sink is followed at once by the name piece of the same
\* module and test (or its writer is still in the statement); a module has
\* one line per executed test, and its tags are the verdicts folded into its
\* statistics: as many PASS as the pass count, the others one per recorded
\* failure, TIMEOUT exactly for the timeout failures.
C16_OneWriterWholeLines ==
    /\ Cardinality({m \in Modules : task[m].pc \in {"locked", "tagged"}}) <= 1
    /\ \A m \in Modules : task[m].pc \in {"locked", "tagged"} <=> lock = m
    /\ \A k \in 1 .. Len(writer) :
          /\ writer[k].part = "tag" =>
                IF k < Len(writer)
                THEN /\ writer[k + 1].part = "name"
                     /\ writer[k + 1].module_id = writer[k].module_id
                ELSE task[writer[k].module_id].pc = "tagged"
          /\ writer[k].part = "name" =>
                /\ k > 1
                /\ writer[k - 1].part = "tag"
                /\ writer[k - 1].module_id = writer[k].module_id
    /\ \A m \in Modules :
          /\ Len(NamesOf(m)) = task[m].idx + (IF task[m].pc = "printed" THEN 1 ELSE 0)
          /\ \A k \in 1 .. Len(NamesOf(m)) : NamesOf(m)[k].fn = tests[m][k].name
          /\ InCall(m) =>
                LET done == SubSeq(TagsOf(m), 1, task[m].idx)
                    bad == SelectSeq(done, LAMBDA p : p.tag # "PASS")
                    failed == FailedOf(task[m].stats, m)
                IN  /\ Len(SelectSeq(done, LAMBDA p : p.tag = "PASS")) = task[m].stats.passed
                    /\ Len(bad) = Len(failed)
                    /\ \A j \in 1 .. Len(bad) :
                          /\ bad[j].tag \in {"FAIL", "TIMEOUT"}
                          /\ bad[j].tag = "TIMEOUT" <=> failed[j].failure_reason = timeout

\* C16 witness: one worker is in the middle of its line (tag written, name
\* not yet) while the other has a verdict to print and waits for the mutex,
\* after a whole line of the waiting module.
C16_Witness ==
    /\ task["coin"].pc = "matched"
    /\ task["coin"].idx = 1
    /\ task["util"].pc = "tagged"
    /\ lock = "util"
    /\ Len(writer) = 3

\* C17: once new has returned, the storage holds every module of the plan
\* under its id and stays as it is (through filter, while tests run, after
\* the run); each open session has that storage as its base, whatever the
\* tests before it or beside it wrote in their sessions.
C17_SnapshotNeverChanges ==
    /\ phase \in {"new", "panicked", "running", "done"} =>
          storage = [m \in Modules |-> ModuleBytes(m)]
    /\ \A m \in Modules :
          task[m].session # << >> =>
              task[m].session[1].base = [n \in Modules |-> ModuleBytes(n)]

\* C17 witness: after a filter, the second test of coin has its session
\* open on the snapshot, the first test having run and written in its own
\* session.
C17_Witness ==
    /\ nfilters = 1
    /\ task["coin"].idx = 1
    /\ Len(vm_outcome["coin"]) = 1
    /\ task["coin"].pc = "session"
    /\ task["coin"].session[1].cache = << >>
    /\ task["coin"].session[1].base = storage

\* The verdict line of a test run alone on a full gas status.
VerdictAlone(m, k) ==
    MatchOutcome(TestStatistics_new, m, tests[m][k].name, tests[m][k].expected_failure,
                 execute_function(body[m][tests[m][k].name], execution_bound).res).line

\* C18: every test starts with a gas status of the whole execution bound;
\* its VM result and its verdict are those of the test run alone: TIMEOUT
\* exactly when its body needs more units than the bound, whatever the
\* tests before it or beside it used up.
C18_FullGasEveryTest ==
    \A m \in Modules :
        /\ task[m].pc = "session" => task[m].gas = <<execution_bound>>
        /\ \A k \in 1 .. Len(vm_outcome[m]) :
              LET b == body[m][tests[m][k].name]
              IN  /\ vm_outcome[m][k] = execute_function(b, execution_bound).res
                  /\ b.cost > execution_bound <=>
                        (~vm_outcome[m][k].ok /\ vm_outcome[m][k].major = OUT_OF_GAS)
        /\ \A k \in 1 .. Len(TagsOf(m)) :
              /\ TagsOf(m)[k].tag = VerdictAlone(m, k)
              /\ TagsOf(m)[k].tag = "TIMEOUT" <=>
                    body[m][tests[m][k].name].cost > execution_bound

\* C18 witness: with bound 10, burn needs 50 units and times out, and mint
\* after it on the same worker, and mint_helper beside it, pass.
C18_Witness ==
    /\ execution_bound = 10
    /\ body["coin"]["burn"].cost = 50
    /\ Len(TagsOf("coin")) = 2
    /\ TagsOf("coin")[1].tag = "TIMEOUT"
    /\ TagsOf("coin")[2].tag = "PASS"
    /\ Len(TagsOf("util")) = 1
    /\ TagsOf("util")[1].tag = "PASS"
    /\ phase = "done"
    /\ results[1].final_statistics.passed = 2

\* C19: once the pool is built, run returns a TestResults, whatever the plan
\* and whatever the tests do, given that every pool thread keeps running:
\* by then every test of every module has been executed.
C19_RunEventuallyReturns ==
    (phase = "running") ~>
        (/\ phase = "done"
         /\ Len(results) = 1
         /\ results[1].test_plan = tests
         /\ \A m \in Modules : Len(vm_outcome[m]) = Len(tests[m]))

\* C19 witness: run has returned after all three tests timed out, one
\* worker having waited for the mutex held by the other.
C19_Witness ==
    /\ phase = "done"
    /\ num_threads = 2
    /\ Len(writer) = 6
    /\ writer[1].module_id = "coin" /\ writer[3].module_id = "util"
    /\ \A k \in 1 .. Len(writer) : writer[k].part = "tag" => writer[k].tag = "TIMEOUT"
    /\ results[1].final_statistics.passed = 0

\* C20: Counter::next hands out a sequence without repetition: the first
\* call returns 0 and no two calls, by whatever threads and in whatever
\* order, return the same value, also once the counter has reached its
\* maximum.
C20_NoTwoCallsSameValue ==
    /\ Len(returned) >= 1 => returned[1].value = 0
    /\ \A i \in 1 .. Len(returned) : \A j \in 1 .. Len(returned) :
          i # j => returned[i].value # returned[j].value

\* C21: a test that declares an expected failure (Expected or
\* ExpectedWithCode) is counted as a pass only when execute_function returned
\* an error whose major status is ABORTED; an error of any other major
\* status is not counted as a pass, whether or not it has a sub status.
C21_ExpectedPassOnlyOnAbort ==
    [][\A m \in Modules :
          (/\ Executed(m)
           /\ StepTest(m).expected_failure.kind # "None"
           /\ (CountedAsPass(m) \/ StepLine(m).tag = "PASS"))
          => ~StepRes(m).ok /\ StepRes(m).major = ABORTED]_vars

====
